---- MODULE Spec2Model ----
(***************************************************************************)
(* Model of horgh/cloudflare: the cfiupdate tool (main, updateIP,          *)
(* dnsLookupHost, getNameserver) and the cloudflare client package         *)
(* (request, ListZones, ListDNSRecords, UpdateDNSRecord, PurgeAllFiles).   *)
(*                                                                         *)
(* Strings that the code only compares are TLA+ strings.  Strings that the *)
(* code scans (the key file, the lines of the resolver configuration) are  *)
(* sequences of symbols.  A net.IP is a record [len, fam, addr]: len is    *)
(* the length of the byte slice (0 is the nil slice), fam the address      *)
(* family and addr the address.                                            *)
(***************************************************************************)
EXTENDS Integers, Sequences, FiniteSets, TLC

VARIABLES
    provZones,        \* provider: the zones the account holds (wire form)
    provRecords,      \* provider: the DNS records it holds (wire form)
    provStart,        \* provider: the DNS records it held at the start
    pc,               \* per invocation: position in main / updateIP
    args,             \* per invocation: Args returned by getArgs
    key,              \* per invocation: the API key read from the key file
    ip,               \* per invocation: main's ip (the IP to set)
    zones,            \* per invocation: updateIP's zones
    zi,               \* per invocation: index of the zone the loop is at
    matchingRecords,  \* per invocation: updateIP's matchingRecords
    record,           \* per invocation: updateIP's record (the copy it sends)
    outcome,          \* per invocation: how the process ended
    calls,            \* per invocation: log of the client calls it made
    lookups,          \* per invocation: number of icanhazip.Lookup calls
    dnsQueries,       \* per invocation: number of dns.Exchange calls
    applied,          \* per invocation: updates the provider applied for it
    served,           \* per invocation: the wire records its listings returned
    current,          \* per invocation: main's ips and err from dnsLookupHost
    sched,            \* how the invocations are launched
    lib,              \* the last call made directly on the client package
    conf,             \* resolver configuration file under scan
    ns,               \* result of getNameserver on conf
    fh,               \* per invocation: the file its -key-file flag names
    dnsIn,            \* the answer dns.Exchange has for a lookup under study
    lookup            \* result of dnsLookupHost on conf and dnsIn

vars == <<provZones, provRecords, provStart, pc, args, key, ip, zones, zi,
          matchingRecords, record, outcome, calls, lookups, dnsQueries,
          applied, served, current, sched, lib, conf, ns, fh, dnsIn,
          lookup>>

----------------------------------------------------------------------------
(* Bounds of the model *)

MaxZones == 2
MaxRecords == 2
MaxAnswers == 2
MaxLines == 2
MaxLineLen == 3
MaxKeyLen == 3

----------------------------------------------------------------------------
(* Values *)

Procs == {"p1", "p2"}

Hostname == "host.example.com"
Domain == "example.com"
Email == "me@example.com"
KeyFilePath == "/etc/cf.key"
RecordTypeA == "A"

Absent == "<absent>"

\* net.IP values
NilIP == [len |-> 0, fam |-> 0, addr |-> 0]
V4Addrs == {1, 2}

IP4(a) == [len |-> 4, fam |-> 4, addr |-> a]
IP16(a) == [len |-> 16, fam |-> 4, addr |-> a]
IP6(a) == [len |-> 16, fam |-> 6, addr |-> a]

\* Text forms of the addresses
V4Text(a) == IF a = 1 THEN "192.0.2.1" ELSE "192.0.2.2"
V6Text(a) == "2001:db8::1"

\* what the -ip flag may hold
IPStrings == {"", "bogus", "192.0.2.1", "192.0.2.2"}

\* net.ParseIP: a textual IPv4 address yields the 16-byte form
ParseIP(s) ==
    CASE s = "192.0.2.1" -> IP16(1)
      [] s = "192.0.2.2" -> IP16(2)
      [] s = "2001:db8::1" -> IP6(1)
      [] OTHER -> NilIP

\* net.IP.String
IPString(x) ==
    CASE x.len = 0 -> "<nil>"
      [] x.fam = 4 -> V4Text(x.addr)
      [] OTHER -> V6Text(x.addr)

\* net.IP.Equal: a 4-byte address equals its 16-byte IPv4-mapped form
IPEqual(x, y) ==
    CASE x.len = y.len -> x = y
      [] x.len = 4 /\ y.len = 16 -> y.fam = 4 /\ x.addr = y.addr
      [] x.len = 16 /\ y.len = 4 -> x.fam = 4 /\ x.addr = y.addr
      [] OTHER -> FALSE

----------------------------------------------------------------------------
(* Sequences *)

RECURSIVE SeqsUpTo(_, _)
SeqsUpTo(S, n) ==
    IF n = 0 THEN {<<>>}
    ELSE LET shorter == SeqsUpTo(S, n - 1)
         IN  shorter \cup {Append(s, x) : s \in {t \in shorter : Len(t) = n - 1}, x \in S}

----------------------------------------------------------------------------
(* Provider: the wire (JSON) forms it holds and serves *)

ZoneIDs == {"z1", "z2", ""}
RecordZoneIDs == {"z1", "z2"}
Contents == {"192.0.2.1", "192.0.2.3"}

RecID(i) == CASE i = 1 -> "r1" [] i = 2 -> "r2" [] i = 3 -> "r3" [] OTHER -> "r4"

WireZone(z) == [id |-> z, name |-> Domain]

\* the i-th record of the provider's table; the fields the tool never sets
\* differ from record to record
WireRecord(i, z, n, t, c) ==
    [id |-> RecID(i), type |-> t, name |-> n, content |-> c,
     proxiable |-> TRUE, proxied |-> (i % 2 = 1), ttl |-> 100 + i,
     locked |-> (i % 2 = 0), zone_id |-> z, zone_name |-> Domain,
     created_on |-> "2016-09-01T00:00:00Z",
     modified_on |-> IF i % 2 = 1 THEN "2016-09-15T00:00:00Z"
                     ELSE "2016-09-16T00:00:00Z"]

NoDup(s) == \A i, j \in 1..Len(s) : i # j => s[i] # s[j]

ZoneLists == {s \in SeqsUpTo({WireZone(z) : z \in ZoneIDs}, MaxZones) : NoDup(s)}

\* the records the i-th place of the provider's table may hold: an A record
\* of the host with either content, a record of another name, a record of
\* the host of another type
RecordChoices(i) ==
    {WireRecord(i, z, Hostname, RecordTypeA, c) : z \in RecordZoneIDs, c \in Contents}
    \cup {WireRecord(i, "z1", "other.example.com", RecordTypeA, "192.0.2.2"),
          WireRecord(i, "z2", Hostname, "AAAA", "2001:db8::1")}

RECURSIVE RecordTables(_)
RecordTables(n) ==
    IF n = 0 THEN {<<>>}
    ELSE LET shorter == RecordTables(n - 1)
         IN  shorter \cup
             {Append(t, w) : t \in {u \in shorter : Len(u) = n - 1},
                             w \in RecordChoices(n)}

AllRecordTables == RecordTables(MaxRecords)

\* what may happen to one HTTP exchange
\*   connfail : Do fails, the request never reached the provider
\*   lost     : the provider handled the request; Do fails on the client's
\*              timeout, or reading or closing the body fails
\*   badjson  : the provider answered, the body is not valid JSON
\*   ok       : the provider's envelope arrives
\* ok: whether the provider, if the request reaches it, accepts it
NetOutcomes == {"connfail", "lost", "badjson", "ok"}
Delivered(net) == net # "connfail"
Exchanges ==
    {[net |-> "connfail", ok |-> FALSE]}
    \cup {[net |-> n, ok |-> b] : n \in NetOutcomes \ {"connfail"}, b \in BOOLEAN}

APIErrors == <<[code |-> 9103, message |-> "Unknown X-Auth-Key or X-Auth-Email"]>>

\* the response envelope {success, errors, result}; valid: the body is JSON
Envelope(ok, result) ==
    [valid |-> TRUE, success |-> ok,
     errors |-> IF ok THEN <<>> ELSE APIErrors, result |-> result]
Garbage == [valid |-> FALSE, success |-> FALSE, errors |-> <<>>, result |-> <<>>]

RECURSIVE RecordsOfZone(_, _, _)
RecordsOfZone(tbl, i, z) ==
    IF i > Len(tbl) THEN <<>>
    ELSE IF tbl[i].zone_id = z THEN <<tbl[i]>> \o RecordsOfZone(tbl, i + 1, z)
    ELSE RecordsOfZone(tbl, i + 1, z)

\* GET zones
ServeListZones(ok) == Envelope(ok, provZones)
\* GET zones/{z}/dns_records: the provider's own filtering is not relied on,
\* it serves the zone's records
ServeListDNSRecords(z, ok) == Envelope(ok, RecordsOfZone(provRecords, 1, z))

\* PUT zones/{z}/dns_records/{id}: an accepted update replaces the writable
\* fields of the record it names
ApplyUpdate(tbl, z, id, payload) ==
    [i \in 1..Len(tbl) |->
        IF tbl[i].zone_id = z /\ tbl[i].id = id
        THEN [tbl[i] EXCEPT !.type = payload.type, !.name = payload.name,
                            !.content = payload.content, !.ttl = payload.ttl,
                            !.proxied = payload.proxied]
        ELSE tbl[i]]

HasRecord(tbl, z, id) == \E i \in 1..Len(tbl) : tbl[i].zone_id = z /\ tbl[i].id = id

----------------------------------------------------------------------------
(* Package cloudflare *)

\* json.Unmarshal into Zone / DNSRecord; json.Marshal of DNSRecord
DecodeZone(w) == [ID |-> w.id, Name |-> w.name]
DecodeDNSRecord(w) ==
    [ID |-> w.id, Type |-> w.type, Name |-> w.name, Content |-> w.content,
     Proxiable |-> w.proxiable, Proxied |-> w.proxied, TTL |-> w.ttl,
     Locked |-> w.locked, ZoneID |-> w.zone_id, ZoneName |-> w.zone_name,
     CreatedOn |-> w.created_on, ModifiedOn |-> w.modified_on]
MarshalDNSRecordDropTTL(r) ==
    [id |-> r.ID, type |-> r.Type, name |-> r.Name, content |-> r.Content,
     proxiable |-> r.Proxiable, proxied |-> r.Proxied, ttl |-> 0,
     locked |-> r.Locked, zone_id |-> r.ZoneID, zone_name |-> r.ZoneName,
     created_on |-> r.CreatedOn, modified_on |-> r.ModifiedOn]
MarshalDNSRecord(r) ==
    [id |-> r.ID, type |-> r.Type, name |-> r.Name, content |-> r.Content,
     proxiable |-> r.Proxiable, proxied |-> r.Proxied, ttl |-> r.TTL,
     locked |-> r.Locked, zone_id |-> r.ZoneID, zone_name |-> r.ZoneName,
     created_on |-> r.CreatedOn, modified_on |-> r.ModifiedOn]

DecodeZones(ws) == [i \in 1..Len(ws) |-> DecodeZone(ws[i])]
DecodeDNSRecords(ws) == [i \in 1..Len(ws) |-> DecodeDNSRecord(ws[i])]

NoRecord == DecodeDNSRecord(WireRecord(4, "", "", "", ""))

\* fmt.Sprintf("%d", n) for the page numbers the model uses
Itoa(n) == CASE n = 1 -> "1" [] n = 2 -> "2" [] OTHER -> "3"

\* Client.request: one httpClient.Do; an error from Do, from reading the body
\* or from closing it is returned in place of the body.  http.NewRequest
\* cannot fail for the methods and escaped URLs the package builds.
requestRetry(net, resp) ==
    IF net \in {"connfail", "lost"}
    THEN [nreq |-> 2, err |-> TRUE, body |-> Garbage]
    ELSE [nreq |-> 1, err |-> FALSE,
          body |-> IF net = "badjson" THEN Garbage ELSE resp]
request(net, resp) ==
    IF net \in {"connfail", "lost"}
    THEN [nreq |-> 1, err |-> TRUE, body |-> Garbage]
    ELSE [nreq |-> 1, err |-> FALSE,
          body |-> IF net = "badjson" THEN Garbage ELSE resp]

\* the query parameter a string argument adds: none when it is blank
StrParam(s) == IF s = "" THEN Absent ELSE s
\* the query parameter an integer argument adds: none unless it is positive
IntParam(n) == IF n > 0 THEN Itoa(n) ELSE Absent

\* the query of a call that sends none of the optional parameters
NoQuery ==
    [name |-> Absent, status |-> Absent, type |-> Absent, content |-> Absent,
     page |-> Absent, per_page |-> Absent, order |-> Absent,
     direction |-> Absent, match |-> Absent]

\* Client.ListZones: the query it builds
ListZonesQueryNoDefault(name, status, page, perPage, order, direction, match) ==
    [NoQuery EXCEPT !.name = StrParam(name),
                    !.status = StrParam(status),
                    !.page = IntParam(page), !.per_page = IntParam(perPage),
                    !.order = StrParam(order), !.direction = StrParam(direction),
                    !.match = StrParam(match)]
ListZonesQuery(name, status, page, perPage, order, direction, match) ==
    [NoQuery EXCEPT !.name = StrParam(name),
                    !.status = IF status = "" THEN "active" ELSE status,
                    !.page = IntParam(page), !.per_page = IntParam(perPage),
                    !.order = StrParam(order), !.direction = StrParam(direction),
                    !.match = StrParam(match)]

\* Client.ListDNSRecords: the query it builds
ListDNSRecordsQuery(recordType, name, content, page, perPage, order, direction, match) ==
    [NoQuery EXCEPT !.type = StrParam(recordType), !.name = StrParam(name),
                    !.content = StrParam(content),
                    !.page = IntParam(page), !.per_page = IntParam(perPage),
                    !.order = StrParam(order), !.direction = StrParam(direction),
                    !.match = StrParam(match)]

NoPayload == [purge_everything |-> FALSE]
PurgePayload == [purge_everything |-> TRUE]

\* the part of a client call common to the four operations: the request, the
\* decoding of the envelope, the success flag
\* err: "" none, "request", "decode", "api"
FinishKeepsResult(op, zoneID, recordID, query, payload, r, result) ==
    [op |-> op, zoneID |-> zoneID, recordID |-> recordID, query |-> query,
     payload |-> payload, nreq |-> r.nreq,
     err |-> IF r.err THEN "request"
             ELSE IF ~r.body.valid THEN "decode"
             ELSE IF ~r.body.success THEN "api"
             ELSE "",
     result |-> IF ~r.err /\ r.body.valid THEN result ELSE <<>>]
FinishIgnoresSuccess(op, zoneID, recordID, query, payload, r, result) ==
    [op |-> op, zoneID |-> zoneID, recordID |-> recordID, query |-> query,
     payload |-> payload, nreq |-> r.nreq,
     err |-> IF r.err THEN "request"
             ELSE IF ~r.body.valid THEN "decode"
             ELSE "",
     result |-> IF ~r.err /\ r.body.valid THEN result ELSE <<>>]
Finish(op, zoneID, recordID, query, payload, r, result) ==
    [op |-> op, zoneID |-> zoneID, recordID |-> recordID, query |-> query,
     payload |-> payload, nreq |-> r.nreq,
     err |-> IF r.err THEN "request"
             ELSE IF ~r.body.valid THEN "decode"
             ELSE IF ~r.body.success THEN "api"
             ELSE "",
     result |-> IF ~r.err /\ r.body.valid /\ r.body.success THEN result ELSE <<>>]

\* the early return of a call that refuses its zoneID: no request is made
InvalidArgument(op, zoneID) ==
    [op |-> op, zoneID |-> zoneID, recordID |-> "", query |-> NoQuery,
     payload |-> NoPayload, nreq |-> 0, err |-> "argument", result |-> <<>>]

\* Client.ListZones
ListZones(name, status, page, perPage, order, direction, match, net, resp) ==
    LET r == request(net, resp)
    IN  Finish("ListZones", "", "",
               ListZonesQuery(name, status, page, perPage, order, direction, match),
               NoPayload, r, DecodeZones(r.body.result))

\* Client.ListDNSRecords
ListDNSRecordsNoCheck(zoneID, recordType, name, content, page, perPage, order, direction, match, net, resp) ==
    LET r == request(net, resp)
    IN  Finish("ListDNSRecords", zoneID, "",
               ListDNSRecordsQuery(recordType, name, content, page, perPage,
                                   order, direction, match),
               NoPayload, r, DecodeDNSRecords(r.body.result))
ListDNSRecords(zoneID, recordType, name, content, page, perPage, order, direction, match, net, resp) ==
    IF zoneID = "" THEN InvalidArgument("ListDNSRecords", zoneID)
    ELSE LET r == request(net, resp)
         IN  Finish("ListDNSRecords", zoneID, "",
                    ListDNSRecordsQuery(recordType, name, content, page, perPage,
                                        order, direction, match),
                    NoPayload, r, DecodeDNSRecords(r.body.result))

\* Client.UpdateDNSRecord: the request goes to the record's own ZoneID and ID
\* and carries the whole record
UpdateDNSRecord(rec, net, resp) ==
    LET r == request(net, resp)
    IN  Finish("UpdateDNSRecord", rec.ZoneID, rec.ID, NoQuery,
               MarshalDNSRecord(rec), r, <<>>)

\* Client.PurgeAllFiles
PurgeAllFiles(zoneID, net, resp) ==
    IF zoneID = "" THEN InvalidArgument("PurgeAllFiles", zoneID)
    ELSE LET r == request(net, resp)
         IN  Finish("PurgeAllFiles", zoneID, "", NoQuery, PurgePayload, r, <<>>)

NoCall ==
    [op |-> "", zoneID |-> "", recordID |-> "", query |-> NoQuery,
     payload |-> NoPayload, nreq |-> 0, err |-> "", result |-> <<>>]

\* what the log of calls keeps of a call: all but the result
Logged(r) ==
    [op |-> r.op, zoneID |-> r.zoneID, recordID |-> r.recordID,
     query |-> r.query, payload |-> r.payload, nreq |-> r.nreq, err |-> r.err]

\* the arguments of a call that takes no listing parameters
NoListArgs ==
    [name |-> "", status |-> "", page |-> 0, perPage |-> 0, order |-> "",
     direction |-> "", match |-> ""]

\* a call made directly on the package, as the caller and the wire saw it:
\* the call with what it returned, the listing arguments a, how the exchange
\* went, and the envelope resp the provider had for it
Seen(r, a, net, resp) ==
    [op |-> r.op, zoneID |-> r.zoneID, recordID |-> r.recordID,
     query |-> r.query, payload |-> r.payload, nreq |-> r.nreq, err |-> r.err,
     result |-> r.result, args |-> a, net |-> net, success |-> resp.success,
     sent |-> resp.result]

----------------------------------------------------------------------------
(* Text the tool scans: sequences of symbols *)

SP == " "
TAB == "\t"
NL == "\n"
HASH == "#"
NAMESERVER == "nameserver"

IsSpace(c) == c \in {SP, TAB, NL}

RECURSIVE TrimLeft(_)
TrimLeft(s) == IF s # <<>> /\ IsSpace(Head(s)) THEN TrimLeft(Tail(s)) ELSE s

RECURSIVE TrimRight(_)
TrimRight(s) ==
    IF s # <<>> /\ IsSpace(s[Len(s)]) THEN TrimRight(SubSeq(s, 1, Len(s) - 1)) ELSE s

\* strings.TrimSpace
TrimSpace(s) == TrimRight(TrimLeft(s))

RECURSIVE SplitOn(_, _, _)
\* the pieces of s between the symbols of seps, empty pieces kept; cur is the
\* piece being read
SplitOn(s, seps, cur) ==
    IF s = <<>> THEN <<cur>>
    ELSE IF Head(s) \in seps THEN <<cur>> \o SplitOn(Tail(s), seps, <<>>)
    ELSE SplitOn(Tail(s), seps, Append(cur, Head(s)))

\* strings.Split(text, " ")
SplitSpace(s) == SplitOn(s, {SP}, <<>>)

RECURSIVE NonEmpty(_)
NonEmpty(ps) ==
    IF ps = <<>> THEN <<>>
    ELSE IF Head(ps) = <<>> THEN NonEmpty(Tail(ps))
    ELSE <<Head(ps)>> \o NonEmpty(Tail(ps))

\* the whitespace-separated tokens of a line
Fields(s) == NonEmpty(SplitOn(s, {SP, TAB, NL}, <<>>))

----------------------------------------------------------------------------
(* cfiupdate: getKeyFromFile *)

\* a file: whether os.Open succeeds, whether reading it succeeds, its content
FilesOf(contents) ==
    {[open |-> FALSE, readable |-> FALSE, content |-> <<>>],
     [open |-> TRUE, readable |-> FALSE, content |-> <<>>]}
    \cup {[open |-> TRUE, readable |-> TRUE, content |-> c] : c \in contents}

\* the key file as the tool is usually run: the key on a line of its own
GoodKeyFile == [open |-> TRUE, readable |-> TRUE, content |-> <<SP, "k", NL>>]
\* the key files the tool is run with when the key is not under study
KeyFiles == {GoodKeyFile, [open |-> FALSE, readable |-> FALSE, content |-> <<>>]}
\* every key file of at most n symbols
AllKeyFiles(n) == FilesOf(SeqsUpTo({SP, NL, "k"}, n))

getKeyFromFileNoTrim(f) ==
    IF ~f.open THEN [key |-> <<>>, err |-> TRUE]
    ELSE IF ~f.readable THEN [key |-> <<>>, err |-> TRUE]
    ELSE IF Len(f.content) = 0 THEN [key |-> <<>>, err |-> TRUE]
    ELSE [key |-> f.content, err |-> FALSE]
getKeyFromFile(f) ==
    IF ~f.open THEN [key |-> <<>>, err |-> TRUE]
    ELSE IF ~f.readable THEN [key |-> <<>>, err |-> TRUE]
    ELSE LET k == TrimSpace(f.content)
         IN  IF Len(k) = 0 THEN [key |-> <<>>, err |-> TRUE]
             ELSE [key |-> k, err |-> FALSE]

----------------------------------------------------------------------------
(* cfiupdate: getNameserver *)

LineSyms == {NAMESERVER, SP, TAB, HASH, "10.0.0.1", "10.0.0.2"}
ConfLines == SeqsUpTo(LineSyms, MaxLineLen)

\* a resolver configuration: whether os.Open succeeds, the lines the scanner
\* yields, whether the scanner then stops on an error (scanner.Err)
ConfFiles(maxLines) ==
    {[open |-> FALSE, lines |-> <<>>, scanErr |-> FALSE]}
    \cup {[open |-> TRUE, lines |-> ls, scanErr |-> e] :
            ls \in SeqsUpTo(ConfLines, maxLines), e \in BOOLEAN}

NoNameserver == <<>>

\* err: "" none, "open", "scan", "noresolver"
RECURSIVE scanLines(_, _, _)
scanLines(lines, i, scanErr) ==
    IF i > Len(lines)
    THEN [ns |-> NoNameserver, err |-> IF scanErr THEN "scan" ELSE "noresolver"]
    ELSE LET text == TrimSpace(lines[i])
         IN  IF Len(text) = 0 \/ text[1] = HASH
             THEN scanLines(lines, i + 1, scanErr)
             ELSE LET pieces == SplitSpace(text)
                  IN  IF Len(pieces) = 2 /\ pieces[1] = <<NAMESERVER>>
                      THEN [ns |-> pieces[2], err |-> ""]
                      ELSE scanLines(lines, i + 1, scanErr)

getNameserver(f) ==
    IF ~f.open THEN [ns |-> NoNameserver, err |-> "open"]
    ELSE scanLines(f.lines, 1, f.scanErr)

----------------------------------------------------------------------------
(* cfiupdate: dnsLookupHost *)

RcodeSuccess == 0
RcodeServerFailure == 2
RcodeNameError == 3
Rcodes == {RcodeSuccess, RcodeServerFailure, RcodeNameError}

\* resource records of an answer section
RRs == {[rrtype |-> "A", A |-> IP4(a)] : a \in V4Addrs}
       \cup {[rrtype |-> "CNAME", A |-> NilIP]}

\* what dns.Exchange may return: an error, or a message
DNSExchanges ==
    {[err |-> TRUE, Rcode |-> RcodeSuccess, Answer |-> <<>>]}
    \cup {[err |-> FALSE, Rcode |-> rc, Answer |-> <<>>] :
            rc \in Rcodes \ {RcodeSuccess}}
    \cup {[err |-> FALSE, Rcode |-> RcodeSuccess, Answer |-> a] :
            a \in SeqsUpTo(RRs, MaxAnswers)}

RECURSIVE ARecordsNoDup(_)
ARecordsNoDup(answer) ==
    IF answer = <<>> THEN <<>>
    ELSE IF Head(answer).rrtype = "A"
            /\ \A i \in 1..Len(Tail(answer)) : Tail(answer)[i] # Head(answer)
         THEN <<Head(answer).A>> \o ARecordsNoDup(Tail(answer))
         ELSE ARecordsNoDup(Tail(answer))

RECURSIVE ARecords(_)
\* the loop over in.Answer: the addresses of the records that are *dns.A
ARecords(answer) ==
    IF answer = <<>> THEN <<>>
    ELSE IF Head(answer).rrtype = "A"
         THEN <<Head(answer).A>> \o ARecords(Tail(answer))
         ELSE ARecords(Tail(answer))

\* err: "" none, "nameserver", "exchange", "rcode"; queries: dns.Exchange calls
dnsLookupHost(f, in) ==
    IF getNameserver(f).err # ""
    THEN [ips |-> <<>>, err |-> "nameserver", queries |-> 0]
    ELSE IF in.err THEN [ips |-> <<>>, err |-> "exchange", queries |-> 1]
    ELSE IF in.Rcode # RcodeSuccess
    THEN [ips |-> <<>>, err |-> "rcode", queries |-> 1]
    ELSE [ips |-> ARecords(in.Answer), err |-> "", queries |-> 1]

\* the resolver configurations the tool is run with
GoodConf == [open |-> TRUE, lines |-> <<<<NAMESERVER, SP, "10.0.0.1">>>>, scanErr |-> FALSE]
ToolConfs ==
    {GoodConf,
     [open |-> FALSE, lines |-> <<>>, scanErr |-> FALSE],
     [open |-> TRUE, lines |-> <<<<HASH, SP, NAMESERVER>>>>, scanErr |-> FALSE]}

----------------------------------------------------------------------------
(* cfiupdate: main and updateIP, one invocation p of the tool *)

NoArgs == [Email |-> "", Domain |-> "", Hostname |-> "", KeyFile |-> "",
           IP |-> NilIP, OnlyIfDifferent |-> FALSE]

\* outcomes of an invocation
Succeeded == {"nodiff", "uptodate", "updated"}
Failed == {"usage", "key", "lookup", "dns", "nocurrent", "manycurrent",
           "listzones", "listrecords", "notfound", "ambiguous", "update"}

\* how the invocations are launched: "single", one invocation; "sequential",
\* a second one once the first has ended; "race", two at once
CanRun(p) ==
    CASE sched = "single" -> p = "p1"
      [] sched = "sequential" -> p = "p1" \/ pc["p1"] = "done"
      [] sched = "race" -> TRUE
      [] OTHER -> FALSE

Exit(p, how) ==
    /\ pc' = [pc EXCEPT ![p] = "done"]
    /\ outcome' = [outcome EXCEPT ![p] = how]

\* getArgs: the flags are parsed and the required ones checked
getArgs(email, domain, hostname, keyFile, ipString, onlyIfDifferent) ==
    IF email = "" \/ domain = "" \/ hostname = "" \/ keyFile = ""
    THEN [args |-> NoArgs, err |-> TRUE]
    ELSE IF ipString # "" /\ ParseIP(ipString) = NilIP
    THEN [args |-> NoArgs, err |-> TRUE]
    ELSE [args |-> [Email |-> email, Domain |-> domain, Hostname |-> hostname,
                    KeyFile |-> keyFile,
                    IP |-> IF ipString = "" THEN NilIP ELSE ParseIP(ipString),
                    OnlyIfDifferent |-> onlyIfDifferent],
          err |-> FALSE]

\* the required flags as given: all of them, or all but one
RequiredFlags ==
    {<<Email, Domain, Hostname, KeyFilePath>>, <<"", Domain, Hostname, KeyFilePath>>,
     <<Email, "", Hostname, KeyFilePath>>, <<Email, Domain, "", KeyFilePath>>,
     <<Email, Domain, Hostname, "">>}

\* main: getArgs
GetArgs(p) ==
    /\ pc[p] = "start"
    /\ \E f \in RequiredFlags, ipString \in IPStrings, oid \in BOOLEAN :
          LET r == getArgs(f[1], f[2], f[3], f[4], ipString, oid)
          IN  IF r.err
              THEN Exit(p, "usage") /\ UNCHANGED args
              ELSE /\ args' = [args EXCEPT ![p] = r.args]
                   /\ pc' = [pc EXCEPT ![p] = "getKey"]
                   /\ UNCHANGED outcome
    /\ UNCHANGED <<provZones, provRecords, key, ip, zones, zi, matchingRecords,
                   record, calls, lookups, dnsQueries, applied, sched, lib,
                   conf, ns,
                   served, current, provStart,
                   fh, dnsIn, lookup>>

\* main: getKeyFromFile
GetKey(p) ==
    /\ pc[p] = "getKey"
    /\ LET r == getKeyFromFile(fh[p])
       IN  IF r.err
           THEN Exit(p, "key") /\ UNCHANGED key
           ELSE /\ key' = [key EXCEPT ![p] = r.key]
                /\ pc' = [pc EXCEPT ![p] = "decideIP"]
                /\ UNCHANGED outcome
    /\ UNCHANGED <<provZones, provRecords, args, ip, zones, zi, matchingRecords,
                   record, calls, lookups, dnsQueries, applied, sched, lib,
                   conf, ns,
                   served, current, provStart,
                   fh, dnsIn, lookup>>

\* what icanhazip.Lookup may return: an error, or the parsed address
LookupResults ==
    {[ip |-> NilIP, err |-> TRUE]}
    \cup {[ip |-> ParseIP(s), err |-> FALSE] : s \in {"192.0.2.1", "192.0.2.2"}}

\* where main goes once ip is decided
AfterDecide(a) == IF ~a.OnlyIfDifferent THEN "listZones" ELSE "dns"

\* main: decide which IP to set
DecideIPAlwaysLookup(p) ==
    /\ pc[p] = "decideIP"
    /\ \E r \in LookupResults :
          /\ lookups' = [lookups EXCEPT ![p] = @ + 1]
          /\ IF r.err
             THEN Exit(p, "lookup") /\ UNCHANGED ip
             ELSE /\ ip' = [ip EXCEPT ![p] = r.ip]
                  /\ pc' = [pc EXCEPT ![p] = AfterDecide(args[p])]
                  /\ UNCHANGED outcome
    /\ UNCHANGED <<provZones, provRecords, args, key, zones, zi,
                   matchingRecords, record, calls, dnsQueries, applied, sched,
                   lib, conf, ns,
                   served, current, provStart,
                   fh, dnsIn, lookup>>
DecideIP(p) ==
    /\ pc[p] = "decideIP"
    /\ IF args[p].IP # NilIP
       THEN /\ ip' = [ip EXCEPT ![p] = args[p].IP]
            /\ pc' = [pc EXCEPT ![p] = AfterDecide(args[p])]
            /\ UNCHANGED <<outcome, lookups>>
       ELSE \E r \in LookupResults :
               /\ lookups' = [lookups EXCEPT ![p] = @ + 1]
               /\ IF r.err
                  THEN Exit(p, "lookup") /\ UNCHANGED ip
                  ELSE /\ ip' = [ip EXCEPT ![p] = r.ip]
                       /\ pc' = [pc EXCEPT ![p] = AfterDecide(args[p])]
                       /\ UNCHANGED outcome
    /\ UNCHANGED <<provZones, provRecords, args, key, zones, zi,
                   matchingRecords, record, calls, dnsQueries, applied, sched,
                   lib, conf, ns,
                   served, current, provStart,
                   fh, dnsIn, lookup>>

\* main, only-if-different: what follows the DNS lookup
\* "" : go on to updateIP
AfterLookupFirstOfMany(r, want) ==
    IF r.err # "" THEN "dns"
    ELSE IF Len(r.ips) = 0 THEN "nocurrent"
    ELSE IF IPEqual(r.ips[1], want) THEN "nodiff"
    ELSE ""
AfterLookupIgnoresError(r, want) ==
    IF r.err # "" THEN ""
    ELSE IF Len(r.ips) = 0 THEN "nocurrent"
    ELSE IF Len(r.ips) > 1 THEN "manycurrent"
    ELSE IF IPEqual(r.ips[1], want) THEN "nodiff"
    ELSE ""
AfterLookup(r, want) ==
    IF r.err # "" THEN "dns"
    ELSE IF Len(r.ips) = 0 THEN "nocurrent"
    ELSE IF Len(r.ips) > 1 THEN "manycurrent"
    ELSE IF IPEqual(r.ips[1], want) THEN "nodiff"
    ELSE ""

\* main: dnsLookupHost and the comparison with the current IP
CheckCurrent(p) ==
    /\ pc[p] = "dns"
    /\ \E f \in ToolConfs, in \in DNSExchanges :
          LET r == dnsLookupHost(f, in)
              how == AfterLookup(r, ip[p])
          IN  /\ dnsQueries' = [dnsQueries EXCEPT ![p] = @ + r.queries]
              /\ current' = [current EXCEPT ![p] = [ips |-> r.ips, err |-> r.err]]
              /\ IF how # ""
                 THEN Exit(p, how)
                 ELSE /\ pc' = [pc EXCEPT ![p] = "listZones"]
                      /\ UNCHANGED outcome
    /\ UNCHANGED <<provZones, provRecords, args, key, ip, zones, zi,
                   matchingRecords, record, calls, lookups, applied, sched,
                   lib, conf, ns,
                   served, provStart,
                   fh, dnsIn, lookup>>

\* updateIP: client.ListZones(domain, "", -1, -1, "", "", "")
UpdateIPListZones(p) ==
    /\ pc[p] = "listZones"
    /\ \E x \in Exchanges :
          LET r == ListZones(args[p].Domain, "", -1, -1, "", "", "", x.net,
                             ServeListZones(x.ok))
          IN  /\ calls' = [calls EXCEPT ![p] = Append(@, Logged(r))]
              /\ IF r.err # ""
                 THEN Exit(p, "listzones") /\ UNCHANGED <<zones, zi>>
                 ELSE /\ zones' = [zones EXCEPT ![p] = r.result]
                      /\ zi' = [zi EXCEPT ![p] = 1]
                      /\ pc' = [pc EXCEPT ![p] =
                                  IF Len(r.result) = 0 THEN "disambiguate"
                                  ELSE "listRecords"]
                      /\ UNCHANGED outcome
    /\ UNCHANGED <<provZones, provRecords, args, key, ip, matchingRecords,
                   record, lookups, dnsQueries, applied, sched, lib, conf, ns,
                   served, current, provStart,
                   fh, dnsIn, lookup>>

RECURSIVE Matching(_, _, _)
\* the inner loop: the records whose Name and Type are the wanted ones
Matching(records, hostname, recordType) ==
    IF records = <<>> THEN <<>>
    ELSE IF Head(records).Name = hostname /\ Head(records).Type = recordType
         THEN <<Head(records)>> \o Matching(Tail(records), hostname, recordType)
         ELSE Matching(Tail(records), hostname, recordType)

\* updateIP: one turn of the loop over zones
UpdateIPListDNSRecordsPerZone(p) ==
    /\ pc[p] = "listRecords"
    /\ \E x \in Exchanges :
          LET zone == zones[p][zi[p]]
              r == ListDNSRecords(zone.ID, RecordTypeA, args[p].Hostname, "",
                                  -1, -1, "", "", "", x.net,
                                  ServeListDNSRecords(zone.ID, x.ok))
          IN  /\ calls' = [calls EXCEPT ![p] = Append(@, Logged(r))]
              /\ served' = [served EXCEPT ![p] =
                               IF r.err # "" THEN @
                               ELSE @ \o ServeListDNSRecords(zone.ID, x.ok).result]
              /\ IF r.err # ""
                 THEN Exit(p, "listrecords") /\ UNCHANGED <<zi, matchingRecords>>
                 ELSE /\ matchingRecords' =
                            [matchingRecords EXCEPT ![p] =
                                Matching(r.result, args[p].Hostname, RecordTypeA)]
                      /\ zi' = [zi EXCEPT ![p] = @ + 1]
                      /\ pc' = [pc EXCEPT ![p] =
                                  IF zi[p] = Len(zones[p]) THEN "disambiguate"
                                  ELSE "listRecords"]
                      /\ UNCHANGED outcome
    /\ UNCHANGED <<provZones, provRecords, args, key, ip, zones, record,
                   lookups, dnsQueries, applied, sched, lib, conf, ns,
                   current, provStart, fh, dnsIn, lookup>>
UpdateIPListDNSRecords(p) ==
    /\ pc[p] = "listRecords"
    /\ \E x \in Exchanges :
          LET zone == zones[p][zi[p]]
              r == ListDNSRecords(zone.ID, RecordTypeA, args[p].Hostname, "",
                                  -1, -1, "", "", "", x.net,
                                  ServeListDNSRecords(zone.ID, x.ok))
          IN  /\ calls' = [calls EXCEPT ![p] = Append(@, Logged(r))]
              /\ served' = [served EXCEPT ![p] =
                               IF r.err # "" THEN @
                               ELSE @ \o ServeListDNSRecords(zone.ID, x.ok).result]
              /\ IF r.err # ""
                 THEN Exit(p, "listrecords") /\ UNCHANGED <<zi, matchingRecords>>
                 ELSE /\ matchingRecords' =
                            [matchingRecords EXCEPT ![p] =
                                @ \o Matching(r.result, args[p].Hostname, RecordTypeA)]
                      /\ zi' = [zi EXCEPT ![p] = @ + 1]
                      /\ pc' = [pc EXCEPT ![p] =
                                  IF zi[p] = Len(zones[p]) THEN "disambiguate"
                                  ELSE "listRecords"]
                      /\ UNCHANGED outcome
    /\ UNCHANGED <<provZones, provRecords, args, key, ip, zones, record,
                   lookups, dnsQueries, applied, sched, lib, conf, ns,
                   current, provStart,
                   fh, dnsIn, lookup>>

\* updateIP, after the loop: what is decided from matchingRecords
\* "" : the record is to be updated
DecideInverted(matching, want) ==
    IF Len(matching) = 0 THEN "notfound"
    ELSE IF Len(matching) > 1 THEN "ambiguous"
    ELSE IF matching[1].Content # IPString(want) THEN "uptodate"
    ELSE ""
DecideAlwaysUpdate(matching, want) ==
    IF Len(matching) = 0 THEN "notfound"
    ELSE IF Len(matching) > 1 THEN "ambiguous"
    ELSE ""
DecidePickFirst(matching, want) ==
    IF Len(matching) = 0 THEN "notfound"
    ELSE IF matching[1].Content = IPString(want) THEN "uptodate"
    ELSE ""
Decide(matching, want) ==
    IF Len(matching) = 0 THEN "notfound"
    ELSE IF Len(matching) > 1 THEN "ambiguous"
    ELSE IF matching[1].Content = IPString(want) THEN "uptodate"
    ELSE ""

\* the copy of the record that is sent: only Content is set
OutgoingClearsProxied(rec, want) ==
    [rec EXCEPT !.Content = IPString(want), !.Proxied = FALSE]
Outgoing(rec, want) == [rec EXCEPT !.Content = IPString(want)]

\* updateIP: the checks on matchingRecords and the change of the copy
UpdateIPDecide(p) ==
    /\ pc[p] = "disambiguate"
    /\ LET how == Decide(matchingRecords[p], ip[p])
       IN  IF how # ""
           THEN Exit(p, how) /\ UNCHANGED record
           ELSE /\ record' = [record EXCEPT ![p] =
                                 Outgoing(matchingRecords[p][1], ip[p])]
                /\ pc' = [pc EXCEPT ![p] = "update"]
                /\ UNCHANGED outcome
    /\ UNCHANGED <<provZones, provRecords, args, key, ip, zones, zi,
                   matchingRecords, calls, lookups, dnsQueries, applied, sched,
                   lib, conf, ns,
                   served, current, provStart,
                   fh, dnsIn, lookup>>

\* the provider applies an update it received, accepts, and has the record of
Applies(net, ok, tbl, rec) ==
    Delivered(net) /\ ok /\ HasRecord(tbl, rec.ZoneID, rec.ID)

\* updateIP: client.UpdateDNSRecord(record)
UpdateIPUpdate(p) ==
    /\ pc[p] = "update"
    /\ \E x \in Exchanges :
          LET rec == record[p]
              does == Applies(x.net, x.ok, provRecords, rec)
              r == UpdateDNSRecord(rec, x.net, Envelope(does, <<>>))
          IN  /\ calls' = [calls EXCEPT ![p] = Append(@, Logged(r))]
              /\ provRecords' =
                    IF does
                    THEN ApplyUpdate(provRecords, r.zoneID, r.recordID, r.payload)
                    ELSE provRecords
              /\ applied' = [applied EXCEPT ![p] = IF does THEN @ + 1 ELSE @]
              /\ Exit(p, IF r.err # "" THEN "update" ELSE "updated")
    /\ UNCHANGED <<provZones, args, key, ip, zones, zi, matchingRecords,
                   record, lookups, dnsQueries, sched, lib, conf, ns,
                   served, current, provStart,
                   fh, dnsIn, lookup>>

\* the steps of main before updateIP
MainStep(p) ==
    /\ CanRun(p)
    /\ \/ GetArgs(p)
       \/ GetKey(p)
       \/ DecideIP(p)
       \/ CheckCurrent(p)

\* the steps of updateIP
UpdateIPStep(p) ==
    /\ CanRun(p)
    /\ \/ UpdateIPListZones(p)
       \/ UpdateIPListDNSRecords(p)
       \/ UpdateIPDecide(p)
       \/ UpdateIPUpdate(p)

InitProcs ==
    /\ pc = [p \in Procs |-> "start"]
    /\ args = [p \in Procs |-> NoArgs]
    /\ key = [p \in Procs |-> <<>>]
    /\ ip = [p \in Procs |-> NilIP]
    /\ zones = [p \in Procs |-> <<>>]
    /\ zi = [p \in Procs |-> 0]
    /\ matchingRecords = [p \in Procs |-> <<>>]
    /\ record = [p \in Procs |-> NoRecord]
    /\ outcome = [p \in Procs |-> "running"]
    /\ calls = [p \in Procs |-> <<>>]
    /\ lookups = [p \in Procs |-> 0]
    /\ dnsQueries = [p \in Procs |-> 0]
    /\ applied = [p \in Procs |-> 0]
    /\ served = [p \in Procs |-> <<>>]
    /\ current = [p \in Procs |-> [ips |-> <<>>, err |-> ""]]

NoConf == [open |-> FALSE, lines |-> <<>>, scanErr |-> FALSE]
NoResult == [ns |-> NoNameserver, err |-> "unset"]
NoAnswer == [err |-> TRUE, Rcode |-> RcodeSuccess, Answer |-> <<>>]
NoLookup == [ips |-> <<>>, err |-> "unset", queries |-> 0]

\* no lookup is under study
InitNoLookup ==
    /\ dnsIn = NoAnswer
    /\ lookup = NoLookup

InitProvider ==
    /\ provZones \in ZoneLists
    /\ provRecords \in AllRecordTables
    /\ provStart = provRecords

\* one invocation of cfiupdate against the provider
Init ==
    /\ InitProvider
    /\ InitProcs
    /\ sched = "single"
    /\ lib = NoCall
    /\ \E f \in KeyFiles : fh = [p \in Procs |-> f]
    /\ InitNoLookup
    /\ conf = NoConf
    /\ ns = NoResult

Next == \E p \in Procs : MainStep(p) \/ UpdateIPStep(p)

Spec == Init /\ [][Next]_vars

----------------------------------------------------------------------------
(* Two invocations of updateIP, the second once the first has returned *)

\* main's state when it calls updateIP with the IP x given on the command line
AtUpdateIP(x) ==
    [Email |-> Email, Domain |-> Domain, Hostname |-> Hostname,
     KeyFile |-> KeyFilePath, IP |-> x, OnlyIfDifferent |-> FALSE]

InitTwice ==
    /\ provZones \in {z \in ZoneLists : \A i \in DOMAIN z : z[i].id # ""}
    /\ provRecords \in AllRecordTables
    /\ provStart = provRecords
    /\ \E x \in {ParseIP(t) : t \in IPStrings} \ {NilIP} :
          /\ args = [p \in Procs |-> AtUpdateIP(x)]
          /\ ip = [p \in Procs |-> x]
    /\ pc = [p \in Procs |-> "listZones"]
    /\ key = [p \in Procs |-> <<"k">>]
    /\ zones = [p \in Procs |-> <<>>]
    /\ zi = [p \in Procs |-> 0]
    /\ matchingRecords = [p \in Procs |-> <<>>]
    /\ record = [p \in Procs |-> NoRecord]
    /\ outcome = [p \in Procs |-> "running"]
    /\ calls = [p \in Procs |-> <<>>]
    /\ lookups = [p \in Procs |-> 0]
    /\ dnsQueries = [p \in Procs |-> 0]
    /\ applied = [p \in Procs |-> 0]
    /\ served = [p \in Procs |-> <<>>]
    /\ current = [p \in Procs |-> [ips |-> <<>>, err |-> ""]]
    /\ sched = "sequential"
    /\ lib = NoCall
    /\ fh = [p \in Procs |-> GoodKeyFile]
    /\ InitNoLookup
    /\ conf = NoConf
    /\ ns = NoResult

NextTwice == \E p \in Procs : UpdateIPStep(p)

SpecTwice == InitTwice /\ [][NextTwice]_vars

----------------------------------------------------------------------------
(* Two invocations of updateIP at once, for the same hostname *)

\* the tables in which exactly one record of the zones zs has the wanted name
\* and type
TablesWithOneMatch(zs) ==
    {t \in AllRecordTables :
        Cardinality({i \in DOMAIN t :
                        /\ t[i].name = Hostname
                        /\ t[i].type = RecordTypeA
                        /\ \E j \in DOMAIN zs : zs[j].id = t[i].zone_id}) = 1}

InitRace ==
    /\ provZones \in {z \in ZoneLists : \A i \in DOMAIN z : z[i].id # ""}
    /\ provRecords \in TablesWithOneMatch(provZones)
    /\ provStart = provRecords
    /\ \E x, y \in {ParseIP(t) : t \in IPStrings} \ {NilIP} :
          /\ args = [p \in Procs |-> AtUpdateIP(IF p = "p1" THEN x ELSE y)]
          /\ ip = [p \in Procs |-> IF p = "p1" THEN x ELSE y]
    /\ pc = [p \in Procs |-> "listZones"]
    /\ key = [p \in Procs |-> <<"k">>]
    /\ zones = [p \in Procs |-> <<>>]
    /\ zi = [p \in Procs |-> 0]
    /\ matchingRecords = [p \in Procs |-> <<>>]
    /\ record = [p \in Procs |-> NoRecord]
    /\ outcome = [p \in Procs |-> "running"]
    /\ calls = [p \in Procs |-> <<>>]
    /\ lookups = [p \in Procs |-> 0]
    /\ dnsQueries = [p \in Procs |-> 0]
    /\ applied = [p \in Procs |-> 0]
    /\ served = [p \in Procs |-> <<>>]
    /\ current = [p \in Procs |-> [ips |-> <<>>, err |-> ""]]
    /\ sched = "race"
    /\ lib = NoCall
    /\ conf = NoConf
    /\ ns = NoResult
    /\ fh = [p \in Procs |-> GoodKeyFile]
    /\ InitNoLookup

SpecRace == InitRace /\ [][NextTwice]_vars

----------------------------------------------------------------------------
(* One invocation of cfiupdate with every key file *)

InitKey ==
    /\ provZones = <<WireZone("z1")>>
    /\ provRecords \in RecordTables(1)
    /\ provStart = provRecords
    /\ InitProcs
    /\ sched = "single"
    /\ lib = NoCall
    /\ conf = NoConf
    /\ ns = NoResult
    /\ \E f \in AllKeyFiles(MaxKeyLen) : fh = [p \in Procs |-> f]
    /\ InitNoLookup

SpecKey == InitKey /\ [][Next]_vars

----------------------------------------------------------------------------
(* getNameserver on every resolver configuration *)

InitResolv ==
    /\ conf \in ConfFiles(MaxLines)
    /\ ns = NoResult
    /\ provZones = <<>>
    /\ provRecords = <<>>
    /\ provStart = <<>>
    /\ InitProcs
    /\ sched = "none"
    /\ lib = NoCall
    /\ fh = [p \in Procs |-> GoodKeyFile]
    /\ InitNoLookup

GetNameserver ==
    /\ ns = NoResult
    /\ ns' = getNameserver(conf)
    /\ UNCHANGED <<provZones, provRecords, provStart, pc, args, key, ip, zones,
                   zi, matchingRecords, record, outcome, calls, lookups,
                   dnsQueries, applied, served, current, sched, lib, conf,
                   fh, dnsIn, lookup>>

NextResolv == GetNameserver

SpecResolv == InitResolv /\ [][NextResolv]_vars

----------------------------------------------------------------------------
(* dnsLookupHost on every resolver configuration of one line and every answer *)

InitLookup ==
    /\ conf \in ConfFiles(1)
    /\ dnsIn \in DNSExchanges
    /\ lookup = NoLookup
    /\ ns = NoResult
    /\ provZones = <<>>
    /\ provRecords = <<>>
    /\ provStart = <<>>
    /\ InitProcs
    /\ sched = "none"
    /\ lib = NoCall
    /\ fh = [p \in Procs |-> GoodKeyFile]

DnsLookupHost ==
    /\ lookup = NoLookup
    /\ lookup' = dnsLookupHost(conf, dnsIn)
    /\ UNCHANGED <<provZones, provRecords, provStart, pc, args, key, ip, zones,
                   zi, matchingRecords, record, outcome, calls, lookups,
                   dnsQueries, applied, served, current, sched, lib, conf, ns,
                   fh, dnsIn>>

NextLookup == DnsLookupHost

SpecLookup == InitLookup /\ [][NextLookup]_vars

----------------------------------------------------------------------------
(* One call made directly on the client package, with any arguments *)

InitClient ==
    /\ provZones \in ZoneLists
    /\ provRecords \in RecordTables(1)
    /\ provStart = provRecords
    /\ InitProcs
    /\ sched = "none"
    /\ lib = NoCall
    /\ fh = [p \in Procs |-> GoodKeyFile]
    /\ InitNoLookup
    /\ conf = NoConf
    /\ ns = NoResult

libUnchanged ==
    UNCHANGED <<provZones, provStart, pc, args, key, ip, zones, zi,
                matchingRecords, record, outcome, calls, lookups, dnsQueries,
                applied, served, current, sched, conf, ns, fh, dnsIn,
                lookup>>

Pages == {-1, 0, 2}

LibListZones ==
    /\ lib = NoCall
    /\ \E name \in {"", Domain}, status \in {"", "pending"}, page \in Pages,
          perPage \in {-1, 2}, order \in {"", "name"},
          direction \in {"", "desc"}, match \in {"", "any"}, x \in Exchanges :
          lib' = Seen(ListZones(name, status, page, perPage, order, direction,
                                match, x.net, ServeListZones(x.ok)),
                      [name |-> name, status |-> status, page |-> page,
                       perPage |-> perPage, order |-> order,
                       direction |-> direction, match |-> match],
                      x.net, ServeListZones(x.ok))
    /\ UNCHANGED provRecords
    /\ libUnchanged

LibListDNSRecords ==
    /\ lib = NoCall
    /\ \E zoneID \in ZoneIDs, recordType \in {"", RecordTypeA},
          name \in {"", Hostname}, content \in {"", "192.0.2.1"},
          page \in Pages, x \in Exchanges :
          lib' = Seen(ListDNSRecords(zoneID, recordType, name, content, page,
                                     -1, "", "", "", x.net,
                                     ServeListDNSRecords(zoneID, x.ok)),
                      NoListArgs, x.net, ServeListDNSRecords(zoneID, x.ok))
    /\ UNCHANGED provRecords
    /\ libUnchanged

\* the records a caller may send: one it listed, with a new content, or one
\* the provider does not hold
LibRecords ==
    {Outgoing(DecodeDNSRecord(provRecords[i]), x) :
        i \in DOMAIN provRecords, x \in {IP16(a) : a \in V4Addrs}}
    \cup {NoRecord}

LibUpdateDNSRecord ==
    /\ lib = NoCall
    /\ \E rec \in LibRecords, x \in Exchanges :
          LET does == Applies(x.net, x.ok, provRecords, rec)
              r == UpdateDNSRecord(rec, x.net, Envelope(does, <<>>))
          IN  /\ lib' = Seen(r, NoListArgs, x.net, Envelope(does, <<>>))
              /\ provRecords' =
                    IF does
                    THEN ApplyUpdate(provRecords, r.zoneID, r.recordID, r.payload)
                    ELSE provRecords
    /\ libUnchanged

LibPurgeAllFiles ==
    /\ lib = NoCall
    /\ \E zoneID \in ZoneIDs, x \in Exchanges :
          lib' = Seen(PurgeAllFiles(zoneID, x.net, Envelope(x.ok, <<>>)),
                      NoListArgs, x.net, Envelope(x.ok, <<>>))
    /\ UNCHANGED provRecords
    /\ libUnchanged

NextClient ==
    \/ LibListZones
    \/ LibListDNSRecords
    \/ LibUpdateDNSRecord
    \/ LibPurgeAllFiles

SpecClient == InitClient /\ [][NextClient]_vars

----------------------------------------------------------------------------
(* Properties of one invocation *)

\* the calls p made of one operation
CallsOf(p, op) == {i \in DOMAIN calls[p] : calls[p][i].op = op}
MutatingCalls(p) == Cardinality(CallsOf(p, "UpdateDNSRecord"))

\* the records served to p that have the wanted name and type
WantedServed(p) ==
    {i \in DOMAIN served[p] :
        served[p][i].name = Hostname /\ served[p][i].type = RecordTypeA}

\* p is past the loop over zones and past the checks on matchingRecords
PastDecide(p) ==
    \/ pc[p] = "update"
    \/ pc[p] = "done" /\ outcome[p] \in {"notfound", "ambiguous", "uptodate",
                                          "update", "updated"}

\* updateIP picked a record: it went on to compare and update it
Selected(p) ==
    \/ pc[p] = "update"
    \/ pc[p] = "done" /\ outcome[p] \in {"uptodate", "update", "updated"}

\* C1: once every listing has returned, updateIP selects a record if and only
\* if exactly one of the records returned has the hostname as name and "A" as
\* type; with none or with several the run ends in an error and
\* UpdateDNSRecord is never called.
C1_SelectsIffExactlyOne ==
    \A p \in Procs :
        PastDecide(p) =>
            /\ Selected(p) <=> Cardinality(WantedServed(p)) = 1
            /\ Cardinality(WantedServed(p)) # 1 =>
                  /\ pc[p] = "done"
                  /\ outcome[p] \in Failed
                  /\ MutatingCalls(p) = 0
            /\ Selected(p) =>
                  \A i \in WantedServed(p) :
                      matchingRecords[p] = <<DecodeDNSRecord(served[p][i])>>

\* a record is selected among several served, one of them wanted
C1_Witness ==
    \E p \in Procs :
        /\ pc[p] = "update"
        /\ Len(served[p]) = 2
        /\ Cardinality(WantedServed(p)) = 1

\* the DNS lookup of p has returned
PastLookup(p) ==
    /\ args[p].OnlyIfDifferent
    /\ \/ pc[p] \in {"listZones", "listRecords", "disambiguate", "update"}
       \/ pc[p] = "done" /\ outcome[p] \notin {"usage", "key", "lookup"}

\* C2: with only-if-different, when the DNS lookup returns exactly one A
\* record equal to the IP to set, the run ends successfully without any call
\* to the provider; when it returns none or several, the run fails without
\* any call to the provider.
C2_ChangeOnlyShortCircuit ==
    \A p \in Procs :
        PastLookup(p) /\ current[p].err = "" =>
            /\ Len(current[p].ips) = 1 /\ IPEqual(current[p].ips[1], ip[p]) =>
                  /\ pc[p] = "done"
                  /\ outcome[p] \in Succeeded
                  /\ calls[p] = <<>>
            /\ Len(current[p].ips) # 1 =>
                  /\ pc[p] = "done"
                  /\ outcome[p] \in Failed
                  /\ calls[p] = <<>>

\* the lookup returned one A record, in its 4-byte form, equal to the 16-byte
\* IP to set
C2_Witness ==
    \E p \in Procs :
        /\ PastLookup(p)
        /\ current[p].err = ""
        /\ Len(current[p].ips) = 1
        /\ current[p].ips[1] # ip[p]
        /\ IPEqual(current[p].ips[1], ip[p])
        /\ outcome[p] = "nodiff"

\* C4: the record UpdateDNSRecord sends is the record a listing returned with
\* only its content replaced by the text of the IP to set, and the request
\* names that record's zone and ID.
C4_OnlyContentChanges ==
    \A p \in Procs :
        \A c \in CallsOf(p, "UpdateDNSRecord") :
            \E i \in WantedServed(p) :
                LET w == served[p][i]
                    sent == calls[p][c].payload
                IN  /\ sent.content = IPString(ip[p])
                    /\ sent.id = w.id
                    /\ sent.type = w.type
                    /\ sent.name = w.name
                    /\ sent.proxiable = w.proxiable
                    /\ sent.proxied = w.proxied
                    /\ sent.ttl = w.ttl
                    /\ sent.locked = w.locked
                    /\ sent.zone_id = w.zone_id
                    /\ sent.zone_name = w.zone_name
                    /\ sent.created_on = w.created_on
                    /\ sent.modified_on = w.modified_on
                    /\ DOMAIN sent = DOMAIN w
                    /\ calls[p][c].zoneID = w.zone_id
                    /\ calls[p][c].recordID = w.id

\* an update was sent for the second record of the table, whose content
\* differed
C4_Witness ==
    \E p \in Procs :
        \E c \in CallsOf(p, "UpdateDNSRecord") :
            /\ calls[p][c].recordID = RecID(2)
            /\ \E i \in WantedServed(p) :
                  served[p][i].content # calls[p][c].payload.content

\* p has decided which IP to set
PastDecideIP(p) ==
    \/ pc[p] \in {"dns", "listZones", "listRecords", "disambiguate", "update"}
    \/ pc[p] = "done" /\ outcome[p] \notin {"usage", "key", "lookup"}

\* C5: when an IP is given on the command line, icanhazip.Lookup is never
\* called, and the IP to set, in the comparison with DNS and in the update
\* sent, is the IP given.
C5_ExplicitIPNoLookup ==
    \A p \in Procs :
        args[p].IP # NilIP =>
            /\ lookups[p] = 0
            /\ outcome[p] # "lookup"
            /\ PastDecideIP(p) => ip[p] = args[p].IP
            /\ \A c \in CallsOf(p, "UpdateDNSRecord") :
                  calls[p][c].payload.content = IPString(args[p].IP)

\* a run with an explicit IP went through the DNS check and sent an update
C5_Witness ==
    \E p \in Procs :
        /\ args[p].IP # NilIP
        /\ args[p].OnlyIfDifferent
        /\ outcome[p] = "updated"

\* C8: a failure ends the invocation: a failed call is the last call and the
\* process has exited in failure; after a failed IP lookup or DNS lookup no
\* call to the provider is made; after a failed disambiguation no update is
\* sent; and no step is made twice (one IP lookup, one DNS query, one
\* ListZones, one ListDNSRecords per zone, one UpdateDNSRecord, one HTTP
\* request per call at most).
C8_FailureIsTerminal ==
    \A p \in Procs :
        /\ \A i \in DOMAIN calls[p] :
              /\ calls[p][i].nreq <= 1
              /\ calls[p][i].err # "" =>
                    /\ i = Len(calls[p])
                    /\ pc[p] = "done"
                    /\ outcome[p] \in Failed
        /\ outcome[p] = "lookup" => calls[p] = <<>> /\ dnsQueries[p] = 0
        /\ current[p].err # "" =>
              pc[p] = "done" /\ outcome[p] \in Failed /\ calls[p] = <<>>
        /\ outcome[p] \in {"nocurrent", "manycurrent"} => calls[p] = <<>>
        /\ outcome[p] \in {"notfound", "ambiguous"} => MutatingCalls(p) = 0
        /\ outcome[p] \in Failed => pc[p] = "done"
        /\ lookups[p] <= 1
        /\ dnsQueries[p] <= 1
        /\ Cardinality(CallsOf(p, "ListZones")) <= 1
        /\ Cardinality(CallsOf(p, "ListDNSRecords")) <= Len(zones[p])
        /\ MutatingCalls(p) <= 1

\* the second listing of a run failed
C8_Witness ==
    \E p \in Procs :
        /\ outcome[p] = "listrecords"
        /\ Len(calls[p]) = 3
        /\ calls[p][3].err = "request"

\* C9 as stated: a run ends up to date with no update sent, or updated with
\* one update the provider accepted, or failed; and a failed run has not
\* changed the provider's record.
C9_Original ==
    \A p \in Procs :
        pc[p] = "done" =>
            /\ \/ outcome[p] \in {"nodiff", "uptodate"} /\ MutatingCalls(p) = 0
               \/ outcome[p] = "updated" /\ MutatingCalls(p) = 1 /\ applied[p] = 1
               \/ outcome[p] \in Failed
            /\ outcome[p] \in Failed => applied[p] = 0

\* C9 as amended: the three outcomes are as stated; a failed run has changed
\* the provider's record only when its one update reached the provider and
\* the response was lost or could not be decoded.
C9_NoPartialSuccess ==
    \A p \in Procs :
        pc[p] = "done" =>
            /\ \/ outcome[p] \in {"nodiff", "uptodate"} /\ MutatingCalls(p) = 0
               \/ outcome[p] = "updated" /\ MutatingCalls(p) = 1 /\ applied[p] = 1
               \/ outcome[p] \in Failed
            /\ applied[p] <= MutatingCalls(p)
            /\ outcome[p] \in Failed /\ applied[p] > 0 =>
                  /\ outcome[p] = "update"
                  /\ calls[p][Len(calls[p])].op = "UpdateDNSRecord"
                  /\ calls[p][Len(calls[p])].err \in {"request", "decode"}

\* the provider applied the update, the response was lost, the run failed
C9_Witness ==
    \E p \in Procs :
        /\ outcome[p] = "update"
        /\ applied[p] = 1
        /\ calls[p][Len(calls[p])].err = "request"

----------------------------------------------------------------------------
(* Properties of two invocations in succession *)

\* the records the provider held at the start, in the zones it lists, that
\* have the wanted name and type
WantedAtStart ==
    {i \in DOMAIN provStart :
        /\ provStart[i].name = Hostname
        /\ provStart[i].type = RecordTypeA
        /\ \E j \in DOMAIN provZones : provZones[j].id = provStart[i].zone_id}

\* the provider starts with exactly one matching record, whose content is not
\* the text of the IP both invocations are to set
OneStaleRecord ==
    /\ ip["p1"] = ip["p2"]
    /\ Cardinality(WantedAtStart) = 1
    /\ \A i \in WantedAtStart : provStart[i].content # IPString(ip["p1"])

BothDone == pc["p1"] = "done" /\ pc["p2"] = "done"

NoFailedCall(p) == \A i \in DOMAIN calls[p] : calls[p][i].err = ""

----------------------------------------------------------------------------
(* Properties of getNameserver *)

RECURSIVE firstDirective(_, _)
\* the second token of the first line, from line i on, that is made of exactly
\* two whitespace-separated tokens, the first being nameserver; blank lines
\* and lines beginning with # are skipped
firstDirective(lines, i) ==
    IF i > Len(lines) THEN [ns |-> NoNameserver, err |-> "noresolver"]
    ELSE LET text == TrimSpace(lines[i])
             tokens == Fields(text)
         IN  IF Len(text) = 0 \/ text[1] = HASH
             THEN firstDirective(lines, i + 1)
             ELSE IF Len(tokens) = 2 /\ tokens[1] = <<NAMESERVER>>
             THEN [ns |-> tokens[2], err |-> ""]
             ELSE firstDirective(lines, i + 1)

\* C6: for every resolver configuration that can be read, getNameserver
\* returns the second token of the first line made of exactly two
\* whitespace-separated tokens whose first is nameserver, blank lines and
\* lines beginning with # skipped, and the no-resolver error when there is no
\* such line.
C6_FirstNameserverDirective ==
    ns # NoResult /\ conf.open /\ ~conf.scanErr =>
        ns = firstDirective(conf.lines, 1)

----------------------------------------------------------------------------
(* Properties of one call on the client package *)

\* C7 as stated: every call of ListZones, ListDNSRecords, UpdateDNSRecord and
\* PurgeAllFiles makes exactly one HTTP request, whatever its arguments and
\* its outcome.
C7_Original == lib # NoCall => lib.nreq = 1

\* C7 as amended: every call makes at most one HTTP request, none is
\* repeated; it makes exactly one unless it is a ListDNSRecords or
\* PurgeAllFiles call with an empty zoneID, which makes none.
C7_OneRequestPerCall ==
    lib # NoCall =>
        /\ lib.nreq <= 1
        /\ lib.nreq = 0 <=>
              lib.op \in {"ListDNSRecords", "PurgeAllFiles"} /\ lib.zoneID = ""

\* an update whose request failed: one request was made
C7_Witness ==
    /\ lib.op = "UpdateDNSRecord"
    /\ lib.err = "request"
    /\ lib.nreq = 1

\* C10: ListDNSRecords and PurgeAllFiles with an empty zoneID fail on the
\* argument without an HTTP request; with a zoneID they never fail on the
\* argument.
C10_EmptyZoneIDRefused ==
    lib.op \in {"ListDNSRecords", "PurgeAllFiles"} =>
        /\ lib.zoneID = "" => lib.err = "argument" /\ lib.nreq = 0
        /\ lib.zoneID # "" => lib.err # "argument" /\ lib.nreq = 1

\* a purge without a zoneID was refused
C10_Witness ==
    /\ lib.op = "PurgeAllFiles"
    /\ lib.zoneID = ""
    /\ lib.err = "argument"
    /\ lib.nreq = 0

\* C11: a call returns an error when the transport fails, when the body is
\* not JSON, or when the envelope's success flag is false, whatever result
\* the envelope carries; it returns without error, with the decoded result,
\* if and only if its request completed, the body decoded and success is true.
C11_ErrorUnlessDecodedSuccess ==
    lib # NoCall =>
        /\ lib.err = "" <=> lib.nreq = 1 /\ lib.net = "ok" /\ lib.success
        /\ lib.nreq = 1 /\ lib.net \in {"connfail", "lost"} => lib.err = "request"
        /\ lib.nreq = 1 /\ lib.net = "badjson" => lib.err = "decode"
        /\ lib.nreq = 1 /\ lib.net = "ok" /\ ~lib.success => lib.err = "api"
        /\ lib.err # "" => lib.result = <<>>
        /\ lib.err = "" /\ lib.op = "ListZones" => lib.result = DecodeZones(lib.sent)
        /\ lib.err = "" /\ lib.op = "ListDNSRecords" =>
              lib.result = DecodeDNSRecords(lib.sent)

\* the provider refused a listing of zones yet sent zones: an error and no
\* zones were returned
C11_Witness ==
    /\ lib.op = "ListZones"
    /\ lib.net = "ok"
    /\ ~lib.success
    /\ Len(lib.sent) > 0
    /\ lib.err = "api"
    /\ lib.result = <<>>

\* C12: ListZones always sends status, "active" when the argument is blank
\* and the argument otherwise; it sends name, order, direction and match as
\* given iff they are not blank, and page and per_page iff they are positive.
C12_ListZonesQuery ==
    lib.op = "ListZones" =>
        LET a == lib.args
            q == lib.query
        IN  /\ q.status # Absent
            /\ q.status = IF a.status = "" THEN "active" ELSE a.status
            /\ q.name = (IF a.name = "" THEN Absent ELSE a.name)
            /\ q.order = (IF a.order = "" THEN Absent ELSE a.order)
            /\ q.direction = (IF a.direction = "" THEN Absent ELSE a.direction)
            /\ q.match = (IF a.match = "" THEN Absent ELSE a.match)
            /\ q.page # Absent <=> a.page > 0
            /\ a.page > 0 => q.page = Itoa(a.page)
            /\ q.per_page # Absent <=> a.perPage > 0
            /\ a.perPage > 0 => q.per_page = Itoa(a.perPage)
            /\ q.type = Absent
            /\ q.content = Absent

\* a listing of zones with a blank status, page zero and two zones per page
C12_Witness ==
    /\ lib.op = "ListZones"
    /\ lib.args.status = ""
    /\ lib.query.status = "active"
    /\ lib.args.page = 0
    /\ lib.query.page = Absent
    /\ lib.args.perPage = 2
    /\ lib.query.per_page = "2"
    /\ lib.args.name = ""
    /\ lib.query.name = Absent

----------------------------------------------------------------------------
(* Properties of the key file *)

\* the invocation is past its call of getKeyFromFile
PastGetKey(p) == pc[p] \notin {"start", "getKey"} /\ outcome[p] # "usage"

\* the file is absent, unreadable, or empty once trimmed
BadKeyFile(f) == ~f.open \/ ~f.readable \/ TrimSpace(f.content) = <<>>

NoNetwork(p) == lookups[p] = 0 /\ dnsQueries[p] = 0 /\ calls[p] = <<>>

\* C13: the key is the content of the key file trimmed of surrounding
\* whitespace; when the file is absent, unreadable or empty once trimmed the
\* run ends on the key error, having made no IP lookup, no DNS query and no
\* provider call.
C13_KeyIsTrimmedContent ==
    \A p \in Procs :
        /\ ~PastGetKey(p) => NoNetwork(p)
        /\ PastGetKey(p) /\ BadKeyFile(fh[p]) =>
              pc[p] = "done" /\ outcome[p] = "key" /\ NoNetwork(p)
        /\ PastGetKey(p) /\ ~BadKeyFile(fh[p]) =>
              outcome[p] # "key" /\ key[p] = TrimSpace(fh[p].content)

\* a key file holding only whitespace ended the run
C13_Witness ==
    \E p \in Procs :
        /\ outcome[p] = "key"
        /\ fh[p].open
        /\ fh[p].readable
        /\ Len(fh[p].content) > 1
        /\ NoNetwork(p)

----------------------------------------------------------------------------
(* Properties of the order of the provider calls *)

\* the first call of p lists the zones of the domain, and is its only listing
\* of zones
ListsZonesFirst(p) ==
    /\ calls[p][1].op = "ListZones"
    /\ calls[p][1].query.name = args[p].Domain
    /\ CallsOf(p, "ListZones") = {1}

\* the calls of p that follow the listing of zones: a listing of the A records
\* of the hostname for each zone returned, in the order returned, as far as
\* the calls go, then an update, made only once every listing has succeeded
\* (a listing refused for its zoneID builds no query)
ListsEachZoneInOrder(p) ==
    LET c == calls[p]
        n == Len(zones[p])
    IN  /\ Len(c) <= n + 2
        /\ \A i \in 2..Len(c) :
              i <= n + 1 =>
                  /\ c[i].op = "ListDNSRecords"
                  /\ c[i].zoneID = zones[p][i - 1].ID
                  /\ c[i].err # "argument" =>
                        /\ c[i].query.type = RecordTypeA
                        /\ c[i].query.name = args[p].Hostname
        /\ Len(c) = n + 2 =>
              /\ c[n + 2].op = "UpdateDNSRecord"
              /\ \A i \in 1..(n + 1) : c[i].err = ""

\* two of the records served to p, from different zones, are wanted ones
MatchInEachOfTwoZones(p) ==
    \E i, j \in WantedServed(p) : served[p][i].zone_id # served[p][j].zone_id

\* matches in two zones end the run on the ambiguity, without an update
AccumulatesAcrossZones(p) ==
    PastDecide(p) /\ MatchInEachOfTwoZones(p) =>
        pc[p] = "done" /\ outcome[p] = "ambiguous" /\ MutatingCalls(p) = 0

\* C14 as stated: a run that reached the provider made one ListZones call for
\* the domain, then one ListDNSRecords call (type A, the hostname) for each
\* zone returned, in the order returned, then at most one UpdateDNSRecord
\* call, made only once every listing had succeeded; matches in two zones
\* give the ambiguity error.
C14_Original ==
    \A p \in Procs :
        pc[p] = "done" /\ calls[p] # <<>> =>
            /\ ListsZonesFirst(p)
            /\ ListsEachZoneInOrder(p)
            /\ calls[p][1].err = "" => Len(calls[p]) >= Len(zones[p]) + 1
            /\ AccumulatesAcrossZones(p)

\* C14 as amended: the same order, the listings stopping at the first one
\* that fails: every zone returned is listed unless an earlier call failed,
\* and only the last call of a run can be a failed one.
C14_CallOrder ==
    \A p \in Procs :
        calls[p] # <<>> =>
            /\ ListsZonesFirst(p)
            /\ ListsEachZoneInOrder(p)
            /\ \A i \in 1..(Len(calls[p]) - 1) : calls[p][i].err = ""
            /\ pc[p] = "done" /\ calls[p][Len(calls[p])].err = "" =>
                  Len(calls[p]) >= Len(zones[p]) + 1
            /\ pc[p] = "done" /\ outcome[p] = "listrecords" =>
                  /\ calls[p][Len(calls[p])].op = "ListDNSRecords"
                  /\ calls[p][Len(calls[p])].err # ""
            /\ AccumulatesAcrossZones(p)

\* two zones were listed, each served one match, the run ended on the
\* ambiguity after three calls
C14_Witness ==
    \E p \in Procs :
        /\ outcome[p] = "ambiguous"
        /\ Len(zones[p]) = 2
        /\ Len(calls[p]) = 3
        /\ MatchInEachOfTwoZones(p)

----------------------------------------------------------------------------
(* Properties of dnsLookupHost *)

\* dns.Exchange returned a message to dnsLookupHost
GotResponse == lookup # NoLookup /\ lookup.queries = 1 /\ ~dnsIn.err

\* the addresses of the A records of an answer section, in its order
AddressesOfA(answer) ==
    LET as == SelectSeq(answer, LAMBDA rr : rr.rrtype = "A")
    IN  [i \in 1..Len(as) |-> as[i].A]

\* C15: dnsLookupHost returns an error for every response whose Rcode is not
\* success; for the others it returns the addresses of the answer records
\* of type A, in the server's order, duplicates kept, other types dropped.
C15_AddressesOfARecords ==
    GotResponse =>
        /\ dnsIn.Rcode # RcodeSuccess => lookup.err = "rcode" /\ lookup.ips = <<>>
        /\ dnsIn.Rcode = RcodeSuccess =>
              lookup.err = "" /\ lookup.ips = AddressesOfA(dnsIn.Answer)

\* an answer holding the same A record twice gave the address twice
C15_Witness ==
    /\ GotResponse
    /\ lookup.err = ""
    /\ Len(dnsIn.Answer) = 2
    /\ Len(lookup.ips) = 2
    /\ lookup.ips[1] = lookup.ips[2]

----------------------------------------------------------------------------
(* Properties of the update call *)

\* p listed the zones and the records of every zone returned, without error
EveryListingSucceeded(p) ==
    /\ calls[p] # <<>>
    /\ \A i \in CallsOf(p, "ListZones") \cup CallsOf(p, "ListDNSRecords") :
          calls[p][i].err = ""
    /\ Cardinality(CallsOf(p, "ListDNSRecords")) = Len(zones[p])

\* exactly one record served to p matched, and its content is not the text
\* of the IP to set
OneMatchToChange(p) ==
    /\ Cardinality(WantedServed(p)) = 1
    /\ \A i \in WantedServed(p) : served[p][i].content # IPString(ip[p])

\* exactly one record served to p matched, and its content is the text of the
\* IP to set
OneMatchUpToDate(p) ==
    /\ Cardinality(WantedServed(p)) = 1
    /\ \A i \in WantedServed(p) : served[p][i].content = IPString(ip[p])

\* C16: an invocation calls UpdateDNSRecord at most once, and a finished one
\* has called it if and only if it reached the provider, every listing
\* succeeded, exactly one record matched and the content of that record is
\* not the text of the IP to set; when the content is that text the run
\* succeeds without the call, also when the DNS lookup of only-if-different
\* gave another address.
C16_UpdateIffOneStaleMatch ==
    \A p \in Procs :
        /\ MutatingCalls(p) <= 1
        /\ pc[p] = "done" =>
              /\ MutatingCalls(p) = 1 <=>
                    EveryListingSucceeded(p) /\ OneMatchToChange(p)
              /\ EveryListingSucceeded(p) /\ OneMatchUpToDate(p) =>
                    outcome[p] = "uptodate" /\ MutatingCalls(p) = 0

\* only-if-different: the DNS lookup gave one address, not the IP to set, the
\* record at the provider already had it, the run succeeded without an update
C16_Witness ==
    \E p \in Procs :
        /\ args[p].OnlyIfDifferent
        /\ Len(current[p].ips) = 1
        /\ ~IPEqual(current[p].ips[1], ip[p])
        /\ EveryListingSucceeded(p)
        /\ OneMatchUpToDate(p)
        /\ outcome[p] = "uptodate"
        /\ MutatingCalls(p) = 0

----------------------------------------------------------------------------
(* Properties of two invocations at once *)

\* the texts of the two IPs to set
WantedTexts == {IPString(ip[p]) : p \in Procs}

\* the provider's record i is as it was at the start, but for its content
SameButContent(i) ==
    [provRecords[i] EXCEPT !.content = provStart[i].content] = provStart[i]

\* each invocation listed everything and was served exactly one match
BothSawOneMatch ==
    \A p \in Procs : EveryListingSucceeded(p) /\ Cardinality(WantedServed(p)) = 1

\* C17 as stated: under every interleaving each invocation issues at most one
\* update, and once both have finished, each having seen exactly one
\* matching record, the content of the record is one of
\* the two IPs whenever an update was issued, its other fields being as they
\* were before the two runs.
C17_Original ==
    /\ \A p \in Procs : MutatingCalls(p) <= 1
    /\ BothDone /\ BothSawOneMatch =>
          \A i \in WantedAtStart :
              /\ MutatingCalls("p1") + MutatingCalls("p2") > 0 =>
                    provRecords[i].content \in WantedTexts
              /\ SameButContent(i)

\* C17 as amended: each invocation issues at most one update, and once both
\* have finished, each having seen exactly one matching record, the content
\* of the record is one of the two IPs whenever the provider applied an
\* update of one of the two invocations, and the record is untouched when it
\* applied none; its other fields, and the other records, are as they were.
C17_RaceOutcome ==
    /\ \A p \in Procs : MutatingCalls(p) <= 1 /\ applied[p] <= MutatingCalls(p)
    /\ BothDone /\ BothSawOneMatch =>
          /\ \A i \in WantedAtStart :
                /\ applied["p1"] + applied["p2"] > 0 =>
                      provRecords[i].content \in WantedTexts
                /\ applied["p1"] + applied["p2"] = 0 =>
                      provRecords[i] = provStart[i]
                /\ SameButContent(i)
          /\ \A i \in DOMAIN provRecords \ WantedAtStart :
                provRecords[i] = provStart[i]

\* both invocations, given the same IP, had their update applied: each had
\* listed the record before the other changed it
C17_Witness ==
    /\ BothDone
    /\ BothSawOneMatch
    /\ ip["p1"] = ip["p2"]
    /\ applied["p1"] = 1
    /\ applied["p2"] = 1
    /\ \A i \in WantedAtStart : provRecords[i].content = IPString(ip["p1"])

====
